---------------------------- MODULE Spec2Model ----------------------------
(***************************************************************************)
(* Model of the three-body simulation core (src/src/main.rs): the Vec2     *)
(* arithmetic, compute_accelerations, the velocity Verlet step() and the   *)
(* accumulator loop of update().                                           *)
(*                                                                         *)
(* The program computes in f32.  An f32 is modelled bit for bit as the     *)
(* record [sign, exp, frac] of its IEEE-754 binary32 fields, so that       *)
(* f32::to_bits() = sign * 2^31 + exp * 2^23 + frac, and every arithmetic  *)
(* operator below rounds to nearest, ties to even, as the hardware does.   *)
(* All intermediate integers stay below 2^31.  The one abstraction: every  *)
(* NaN is the single quiet NaN 0x7FC00000 (Rust leaves the sign and the    *)
(* payload of a computed NaN unspecified).                                 *)
(***************************************************************************)
EXTENDS Integers, Sequences, FiniteSets

(***************************************************************************)
(* f32: representation                                                     *)
(***************************************************************************)
TwoP23 == 2 ^ 23
TwoP24 == 2 ^ 24
TwoP30 == 2 ^ 30

F32(s, e, m) == [sign |-> s, exp |-> e, frac |-> m]

NaN == F32(0, 255, 4194304)
Inf(s) == F32(s, 255, 0)
Zero(s) == F32(s, 0, 0)

IsNaN(a) == a.exp = 255 /\ a.frac # 0
IsInf(a) == a.exp = 255 /\ a.frac = 0
IsZero(a) == a.exp = 0 /\ a.frac = 0
IsFinite(a) == a.exp < 255

Neg(a) == IF IsNaN(a) THEN NaN ELSE F32(1 - a.sign, a.exp, a.frac)

\* exp * 2^23 + frac: the bits below the sign, which order the magnitudes.
MagBits(a) == a.exp * TwoP23 + a.frac

\* A key that orders the non-NaN values as the reals they denote (-0 = +0).
Key(a) == IF a.sign = 1 THEN 0 - MagBits(a) ELSE MagBits(a)

\* The f32 comparisons: false as soon as an operand is NaN.
FEq(a, b) == ~IsNaN(a) /\ ~IsNaN(b) /\ Key(a) = Key(b)
FLt(a, b) == ~IsNaN(a) /\ ~IsNaN(b) /\ Key(a) < Key(b)
FGe(a, b) == ~IsNaN(a) /\ ~IsNaN(b) /\ Key(a) >= Key(b)

(***************************************************************************)
(* f32: rounding                                                           *)
(***************************************************************************)
\* x >> n with the bits shifted out OR-ed into bit 0 (a sticky bit).
ShiftRightJam(x, n) ==
    IF n = 0 THEN x
    ELSE IF n >= 31 THEN (IF x # 0 THEN 1 ELSE 0)
    ELSE LET q == x \div (2 ^ n)
         IN  IF x % (2 ^ n) # 0 /\ q % 2 = 0 THEN q + 1 ELSE q

\* The number of left shifts that bring x (0 < x < 2^31) into [2^30, 2^31).
RECURSIVE LeadShift(_)
LeadShift(x) == IF x >= TwoP30 THEN 0 ELSE 1 + LeadShift(2 * x)

\* Round to nearest even and pack: the value sig * 2^(e - 157), where sig is
\* in [2^30, 2^31) (24 significant bits, 7 rounding bits), e the biased
\* exponent of the result before rounding.
RoundPack(s, e, sig) ==
    IF e >= 255 THEN Inf(s)
    ELSE LET sg == IF e <= 0 THEN ShiftRightJam(sig, 1 - e) ELSE sig
             eb == IF e <= 0 THEN 0 ELSE e - 1
             q == sg \div 128
             rb == sg % 128
             up == IF rb > 64 \/ (rb = 64 /\ q % 2 = 1) THEN 1 ELSE 0
             n == eb * TwoP23 + q + up
         IN  IF n \div TwoP23 >= 255 THEN Inf(s)
             ELSE F32(s, n \div TwoP23, n % TwoP23)

\* The same for any sig in (0, 2^31): normalise first.
NormRoundPack(s, e, sig) ==
    LET k == LeadShift(sig)
    IN  RoundPack(s, e - k, sig * (2 ^ k))

\* The significand with its hidden bit, and the exponent it is scaled by:
\* a finite non-zero a is SigOf(a) * 2^(ExpOf(a) - 150).
ExpOf(a) == IF a.exp = 0 THEN 1 ELSE a.exp
SigOf(a) == IF a.exp = 0 THEN a.frac ELSE TwoP23 + a.frac

\* The same normalised: NSigOf(a) in [2^23, 2^24), for subnormals too.
NShift(a) == IF a.exp # 0 THEN 0 ELSE LeadShift(a.frac) - 7
NSigOf(a) == SigOf(a) * (2 ^ NShift(a))
NExpOf(a) == ExpOf(a) - NShift(a)

(***************************************************************************)
(* f32: + - * / sqrt max                                                   *)
(***************************************************************************)
\* |a| + |b| with sign s, for finite non-zero a, b.
AddMags(s, a, b) ==
    LET hi == IF MagBits(a) >= MagBits(b) THEN a ELSE b
        lo == IF MagBits(a) >= MagBits(b) THEN b ELSE a
        A == SigOf(hi) * 64
        B == ShiftRightJam(SigOf(lo) * 64, ExpOf(hi) - ExpOf(lo))
    IN  NormRoundPack(s, ExpOf(hi) + 1, A + B)

\* |a| - |b| carrying the sign of the larger, for finite non-zero a, b.
SubMags(a, b) ==
    IF MagBits(a) = MagBits(b) THEN Zero(0)
    ELSE LET hi == IF MagBits(a) > MagBits(b) THEN a ELSE b
             lo == IF MagBits(a) > MagBits(b) THEN b ELSE a
             s == IF MagBits(a) > MagBits(b) THEN a.sign ELSE 1 - a.sign
             A == SigOf(hi) * 128
             B == ShiftRightJam(SigOf(lo) * 128, ExpOf(hi) - ExpOf(lo))
         IN  NormRoundPack(s, ExpOf(hi), A - B)

FAdd(a, b) ==
    IF IsNaN(a) \/ IsNaN(b) THEN NaN
    ELSE IF IsInf(a) THEN (IF IsInf(b) /\ a.sign # b.sign THEN NaN ELSE a)
    ELSE IF IsInf(b) THEN b
    ELSE IF IsZero(a) /\ IsZero(b) THEN Zero(IF a.sign = b.sign THEN a.sign ELSE 0)
    ELSE IF IsZero(a) THEN b
    ELSE IF IsZero(b) THEN a
    ELSE IF a.sign = b.sign THEN AddMags(a.sign, a, b)
    ELSE SubMags(a, b)

FSub(a, b) == FAdd(a, Neg(b))

\* The 48-bit product x * y of two 24-bit numbers, as its top 31 bits with the
\* rest jammed: (x * y) >> 17, computed in 12-bit limbs.
MulJam(x, y) ==
    LET x1 == x \div 4096
        x0 == x % 4096
        y1 == y \div 4096
        y0 == y % 4096
        lo == x0 * y0
        mid == x1 * y0 + x0 * y1 + (lo \div 4096)
        H == x1 * y1 + (mid \div 4096)
        L == (mid % 4096) * 4096 + (lo % 4096)
        q == H * 128 + (L \div 131072)
    IN  IF L % 131072 # 0 /\ q % 2 = 0 THEN q + 1 ELSE q

FMul(a, b) ==
    LET s == IF a.sign = b.sign THEN 0 ELSE 1
    IN  IF IsNaN(a) \/ IsNaN(b) THEN NaN
        ELSE IF IsInf(a) \/ IsInf(b)
             THEN (IF IsZero(a) \/ IsZero(b) THEN NaN ELSE Inf(s))
        ELSE IF IsZero(a) \/ IsZero(b) THEN Zero(s)
        ELSE NormRoundPack(s, NExpOf(a) + NExpOf(b) - 126,
                           MulJam(NSigOf(a), NSigOf(b)))

\* n more quotient bits of r / d (r < d < 2^24), seven at a time; the result
\* is <<quotient, remainder>>.
RECURSIVE DivBits(_, _, _, _)
DivBits(q, r, d, n) ==
    IF n = 0 THEN <<q, r>>
    ELSE LET k == IF n >= 7 THEN 7 ELSE n
             t == r * (2 ^ k)
         IN  DivBits(q * (2 ^ k) + (t \div d), t % d, d, n - k)

FDiv(a, b) ==
    LET s == IF a.sign = b.sign THEN 0 ELSE 1
    IN  IF IsNaN(a) \/ IsNaN(b) THEN NaN
        ELSE IF IsInf(a) THEN (IF IsInf(b) THEN NaN ELSE Inf(s))
        ELSE IF IsInf(b) THEN Zero(s)
        ELSE IF IsZero(b) THEN (IF IsZero(a) THEN NaN ELSE Inf(s))
        ELSE IF IsZero(a) THEN Zero(s)
        ELSE LET x == NSigOf(a)
                 d == NSigOf(b)
                 qr == DivBits(x \div d, x % d, d, 30)
                 q == qr[1]
                 sig == IF qr[2] # 0 /\ q % 2 = 0 THEN q + 1 ELSE q
             IN  NormRoundPack(s, NExpOf(a) - NExpOf(b) + 127, sig)

\* n more bits of the integer square root: of rest (< 4 * p, read two bits at
\* a time from the top, p the weight of its top pair) while p > 0, of zero bit
\* pairs after that; the result is <<root, remainder>>.
RECURSIVE SqrtBits(_, _, _, _, _)
SqrtBits(rest, p, n, root, rem) ==
    IF n = 0 THEN <<root, rem>>
    ELSE LET r == 4 * rem + (IF p > 0 THEN rest \div p ELSE 0)
             t == 4 * root + 1
             below == IF p > 0 THEN rest % p ELSE 0
         IN  IF r >= t
             THEN SqrtBits(below, p \div 4, n - 1, 2 * root + 1, r - t)
             ELSE SqrtBits(below, p \div 4, n - 1, 2 * root, r)

FSqrt(a) ==
    IF IsNaN(a) THEN NaN
    ELSE IF IsZero(a) THEN a
    ELSE IF a.sign = 1 THEN NaN
    ELSE IF IsInf(a) THEN a
    ELSE LET t == NExpOf(a) - 150
             odd == t % 2 # 0
             x == IF odd THEN 2 * NSigOf(a) ELSE NSigOf(a)
             h == (IF odd THEN t - 1 ELSE t) \div 2
             rr == SqrtBits(x, TwoP24, 27, 0, 0)
             sig == rr[1] * 16 + (IF rr[2] # 0 THEN 1 ELSE 0)
         IN  NormRoundPack(0, h + 139, sig)

\* f32::max: the other operand when one is NaN.
FMax(a, b) ==
    IF IsNaN(a) THEN b
    ELSE IF IsNaN(b) THEN a
    ELSE IF FLt(a, b) THEN b ELSE a


(***************************************************************************)
(* The constants of the program (f32 literals, by their bits)              *)
(***************************************************************************)
F0 == Zero(0)                       \* 0.0
G == F32(0, 127, 0)                 \* const G: f32 = 1.0
SOFTENING == F32(0, 123, 5033165)   \* 0.1   = 0x3DCCCCCD
HALF == F32(0, 126, 0)              \* 0.5
speed_factor == F32(0, 135, 7995392) \* 500.0 = 0x43FA0000
DT == F32(0, 120, 2348810)          \* 0.01  = 0x3C23D70A

\* A whole number n, |n| < 2^24, as the f32 that holds it exactly.
FromInt(n) ==
    IF n = 0 THEN F0
    ELSE IF n < 0 THEN NormRoundPack(1, 157, 0 - n)
    ELSE NormRoundPack(0, 157, n)

(***************************************************************************)
(* Vec2                                                                    *)
(***************************************************************************)
Vec2(x, y) == [x |-> x, y |-> y]

add(a, b) == Vec2(FAdd(a.x, b.x), FAdd(a.y, b.y))
sub(a, b) == Vec2(FSub(a.x, b.x), FSub(a.y, b.y))
mul(a, k) == Vec2(FMul(a.x, k), FMul(a.y, k))
div(a, k) == Vec2(FDiv(a.x, k), FDiv(a.y, k))

magnitude(a) == FSqrt(FAdd(FMul(a.x, a.x), FMul(a.y, a.y)))

\* The vector as it is, not scaled to length 1.
normalize_none(a) == a

normalize(a) ==
    LET mag == magnitude(a)
    IN  IF FEq(mag, F0) THEN a ELSE div(a, mag)

(***************************************************************************)
(* Simulation                                                              *)
(***************************************************************************)
Body(pos, vel, mass, color) ==
    [pos |-> pos, vel |-> vel, mass |-> mass, color |-> color, trail |-> <<>>]

\* Simulation::new(): the three bodies, dt and the accumulator.
new ==
    [bodies |-> << Body(Vec2(FromInt(-100), F0), Vec2(F0, HALF),
                        FromInt(70), <<255, 0, 0>>),
                   Body(Vec2(F0, F0), Vec2(F0, F0),
                        FromInt(100), <<0, 255, 0>>),
                   Body(Vec2(FromInt(100), F0), Vec2(F0, Neg(HALF)),
                        FromInt(30), <<0, 0, 255>>) >>,
     dt |-> DT,
     accumulator |-> F0]

\* The distance taken as it is, without the floor.
softened_none(d) == d

\* `diff.magnitude().max(0.1)`: the distance the force law divides by.
softened(d) == FMax(d, SOFTENING)

\* The mass of the pulled body in place of the pulling one.
pull_own(bs, i, j) == FMul(G, bs[i].mass)

\* The force between the two bodies in place of the acceleration of one.
pull_force(bs, i, j) == FMul(FMul(G, bs[i].mass), bs[j].mass)

\* `G * self.bodies[j].mass`: the strength of the source of the pull.
pull(bs, i, j) == FMul(G, bs[j].mass)

\* One pass of the inner loop for i # j: what body j adds to acc[i].
contribution(bs, i, j) ==
    LET diff == sub(bs[j].pos, bs[i].pos)
        distance == softened(magnitude(diff))
    IN  mul(normalize(diff), FDiv(pull(bs, i, j), FMul(distance, distance)))

\* The inner loop `for j in 0..n` from j on (bodies are numbered from 1 here).
RECURSIVE acc_loop(_, _, _, _)
acc_loop(bs, i, j, acc_i) ==
    IF j > Len(bs) THEN acc_i
    ELSE IF i = j THEN acc_loop(bs, i, j + 1, acc_i)
    ELSE acc_loop(bs, i, j + 1, add(acc_i, contribution(bs, i, j)))

compute_accelerations(bs) ==
    [i \in 1..Len(bs) |-> acc_loop(bs, i, 1, Vec2(F0, F0))]

\* A trail kept to its last two entries instead of growing.
push_capped(trail, pos) ==
    IF Len(trail) >= 2 THEN Append(Tail(trail), pos) ELSE Append(trail, pos)

\* `body.trail.push(pos)`
push(trail, pos) == Append(trail, pos)

\* The first loop of step() from body i on: the new positions.
RECURSIVE move_loop(_, _, _, _)
move_loop(bs, acc_old, d, i) ==
    IF i > Len(bs) THEN bs
    ELSE move_loop(
           [bs EXCEPT ![i].pos =
               add(add(bs[i].pos, mul(bs[i].vel, d)),
                   mul(acc_old[i], FMul(FMul(HALF, d), d)))],
           acc_old, d, i + 1)

\* The velocity update from acc_old alone.
kick_old_only(vel, a_old, a_new, d) == add(vel, mul(a_old, FMul(HALF, d)))

\* `body.vel + (acc_old[i] + acc_new[i]) * (0.5 * dt)`
kick(vel, a_old, a_new, d) == add(vel, mul(add(a_old, a_new), FMul(HALF, d)))

\* The second loop of step() from body i on: the new velocities, the trail.
RECURSIVE kick_loop(_, _, _, _, _)
kick_loop(bs, acc_old, acc_new, d, i) ==
    IF i > Len(bs) THEN bs
    ELSE kick_loop(
           [bs EXCEPT ![i].vel = kick(bs[i].vel, acc_old[i], acc_new[i], d),
                      ![i].trail = push(bs[i].trail, bs[i].pos)],
           acc_old, acc_new, d, i + 1)

\* step() with acc_new taken before the positions are moved.
step_stale(bs, d) ==
    LET acc_old == compute_accelerations(bs)
        moved == move_loop(bs, acc_old, d, 1)
        acc_new == compute_accelerations(bs)
    IN  kick_loop(moved, acc_old, acc_new, d, 1)

\* Simulation::step() on the bodies bs with the step d.
step(bs, d) ==
    LET acc_old == compute_accelerations(bs)
        moved == move_loop(bs, acc_old, d, 1)
        acc_new == compute_accelerations(moved)
    IN  kick_loop(moved, acc_old, acc_new, d, 1)

(***************************************************************************)
(* The state machine                                                       *)
(***************************************************************************)
VARIABLES
    bodies,        \* Simulation.bodies
    dt,            \* Simulation.dt
    accumulator,   \* Simulation.accumulator
    pc,            \* "idle", or "loop" inside update()'s while loop
    steps,         \* history: the number of calls of step() so far
    calls,         \* history: the calls of step() made by the current update()
    acc,           \* the value the last call of compute_accelerations returned
    bodies0,       \* history: the bodies the run started from
    prev           \* history: the bodies before the last call of step()

vars == <<bodies, dt, accumulator, pc, steps, calls, acc, bodies0, prev>>

MaxSteps == 7

\* The frame times update() is given (ctx.time.delta() in seconds, f32):
\* 0, 0.00001, 0.00003, 0.0001 and 1024.
Deltas ==
    { F0, F32(0, 110, 2606508), F32(0, 111, 8104066), F32(0, 113, 5355287),
      F32(0, 137, 0) }

Init ==
    /\ bodies = new.bodies
    /\ dt = new.dt
    /\ accumulator = new.accumulator
    /\ pc = "idle"
    /\ steps = 0
    /\ calls = 0
    /\ acc = <<>>
    /\ bodies0 = new.bodies
    /\ prev = new.bodies

\* A step() that also consumes dt of the accumulator.
Step_drain ==
    /\ pc = "idle"
    /\ steps < MaxSteps
    /\ bodies' = step(bodies, dt)
    /\ prev' = bodies
    /\ steps' = steps + 1
    /\ accumulator' = FSub(accumulator, dt)
    /\ UNCHANGED <<dt, pc, calls, acc, bodies0>>

\* A call of step().
Step ==
    /\ pc = "idle"
    /\ steps < MaxSteps
    /\ bodies' = step(bodies, dt)
    /\ prev' = bodies
    /\ steps' = steps + 1
    /\ UNCHANGED <<dt, accumulator, pc, calls, acc, bodies0>>

\* update(): `self.accumulator += delta * speed_factor`, up to the loop.
UpdateBegin(delta) ==
    /\ pc = "idle"
    /\ accumulator' = FAdd(accumulator, FMul(delta, speed_factor))
    /\ pc' = "loop"
    /\ calls' = 0
    /\ UNCHANGED <<bodies, dt, steps, acc, bodies0, prev>>

\* update(): one pass of `while self.accumulator >= self.dt`.
UpdateLoop ==
    /\ pc = "loop"
    /\ FGe(accumulator, dt)
    /\ steps < MaxSteps
    /\ bodies' = step(bodies, dt)
    /\ prev' = bodies
    /\ accumulator' = FSub(accumulator, dt)
    /\ steps' = steps + 1
    /\ calls' = calls + 1
    /\ UNCHANGED <<dt, pc, acc, bodies0>>

\* update(): the loop's condition is false, `Ok(())`.
UpdateReturn ==
    /\ pc = "loop"
    /\ ~FGe(accumulator, dt)
    /\ pc' = "idle"
    /\ UNCHANGED <<bodies, dt, accumulator, steps, calls, acc, bodies0, prev>>

Next ==
    \/ Step
    \/ \E delta \in Deltas : UpdateBegin(delta)
    \/ UpdateLoop
    \/ UpdateReturn

Spec == Init /\ [][Next]_vars


(***************************************************************************)
(* Claims about step() and update() from Simulation::new()  (Spec)         *)
(***************************************************************************)
Bodies == 1..Len(bodies)

\* C1: every call of step() appends exactly one entry to every body's trail,
\* the position that step left the body at: after n calls from
\* Simulation::new() every trail has n entries, the last one the current pos,
\* and the n-th call left the earlier n-1 entries as they were before it.
C1_TrailAppend ==
    \A i \in Bodies :
        /\ Len(bodies[i].trail) = steps
        /\ steps >= 1 =>
            /\ bodies[i].trail[steps] = bodies[i].pos
            /\ Len(prev[i].trail) = steps - 1
            /\ SubSeq(bodies[i].trail, 1, steps - 1) = prev[i].trail

\* Three calls made, and the trail of the first body holds three different
\* positions.
C1_Witness ==
    /\ steps = 3
    /\ Len(bodies[1].trail) = 3
    /\ bodies[1].trail[1] # bodies[1].trail[2]
    /\ bodies[1].trail[2] # bodies[1].trail[3]

\* C2: one call of step() is the velocity Verlet reference: with a_old the
\* accelerations at the positions before the step, every body gets
\* pos' = pos + vel*dt + a_old*(0.5*dt*dt) from its velocity before the step;
\* with a_new the accelerations at the new positions of all the bodies, every
\* body gets vel' = vel + (a_old + a_new)*(0.5*dt).
C2_VelocityVerlet ==
    steps >= 1 =>
        LET a_old == compute_accelerations(prev)
            a_new == compute_accelerations(bodies)
        IN  \A i \in Bodies :
                /\ bodies[i].pos =
                       add(add(prev[i].pos, mul(prev[i].vel, dt)),
                           mul(a_old[i], FMul(FMul(HALF, dt), dt)))
                /\ bodies[i].vel =
                       add(prev[i].vel, mul(add(a_old[i], a_new[i]), FMul(HALF, dt)))

\* Two calls made, every body has moved and changed its velocity, and the
\* accelerations are no longer those of the start.
C2_Witness ==
    /\ steps = 2
    /\ \A i \in Bodies : bodies[i].pos # bodies0[i].pos /\ bodies[i].vel # bodies0[i].vel
    /\ compute_accelerations(bodies) # compute_accelerations(bodies0)

C4_Fixed ==
    /\ Len(bodies) = 3
    /\ dt = new.dt
    /\ \A i \in Bodies :
        /\ bodies[i].mass = new.bodies[i].mass
        /\ bodies[i].color = new.bodies[i].color
        /\ FLt(F0, bodies[i].mass)

C4_StepKeepsAccumulator ==
    (pc = "idle" /\ steps' = steps + 1) => accumulator' = accumulator

\* C4: step() and update() leave the number of bodies (three), their order,
\* every mass (> 0) and colour, and dt as Simulation::new() set them, and a
\* call of step() leaves the accumulator alone.
C4_Frame == []C4_Fixed /\ [][C4_StepKeepsAccumulator]_vars

\* Both step() and update() have run, and update() has left time in the
\* accumulator.
C4_Witness ==
    /\ pc = "idle"
    /\ steps >= 3
    /\ calls >= 1
    /\ steps > calls
    /\ ~IsZero(accumulator)

\* C3 (as stated): update() terminates after k = floor((accumulator_before +
\* 500*delta) / dt) calls of step(), each pass of the loop taking dt off the
\* accumulator (after the j-th pass it holds accumulator_before + 500*delta -
\* j*dt): every pass leaves less in the accumulator than it found.
C3_LoopConsumes ==
    [][(pc = "loop" /\ pc' = "loop" /\ calls' = calls + 1)
          => FLt(accumulator', accumulator)]_vars


(***************************************************************************)
(* compute_accelerations and step() on any bodies  (SpecAny)               *)
(***************************************************************************)
MaxProbeSteps == 1

V0 == Vec2(F0, F0)

\* Positions: the origin, ordinary ones, two within the softening floor of the
\* origin (0.03, 0.04) and (0.05, 0), one whose squared distance from the
\* origin is subnormal (4.43e-23, 0), and three at the far end of f32
\* (+-3e38, 0), (1e20, 0).
Pts ==
    { V0,
      Vec2(FromInt(-10), F0), Vec2(FromInt(10), F0), Vec2(FromInt(-100), F0),
      Vec2(FromInt(3), FromInt(4)),
      Vec2(F32(0, 121, 7717519), F32(0, 122, 2348810)),
      Vec2(F32(0, 122, 5033165), F0),
      Vec2(F32(0, 52, 5645533), F0),
      Vec2(F32(0, 254, 6402534), F0), Vec2(F32(1, 254, 6402534), F0),
      Vec2(F32(0, 193, 2980076), F0) }

Masses == { FromInt(30), FromInt(70), FromInt(100) }

OneBody == { << Body(p, Vec2(F0, HALF), m, <<255, 0, 0>>) >> : p \in Pts, m \in Masses }

TwoBodies ==
    { << Body(p, V0, m1, <<255, 0, 0>>), Body(q, V0, m2, <<0, 255, 0>>) >> :
        p \in Pts, q \in Pts, m1 \in Masses, m2 \in Masses }

ThreeBodies ==
    { new.bodies,
      << Body(V0, V0, FromInt(70), <<255, 0, 0>>),
         Body(V0, V0, FromInt(100), <<0, 255, 0>>),
         Body(Vec2(FromInt(3), FromInt(4)), V0, FromInt(30), <<0, 0, 255>>) >> }

InitAny ==
    /\ bodies \in OneBody \cup TwoBodies \cup ThreeBodies
    /\ dt = DT
    /\ accumulator = F0
    /\ pc = "idle"
    /\ steps = 0
    /\ calls = 0
    /\ acc = <<>>
    /\ bodies0 = bodies
    /\ prev = bodies

\* A call of compute_accelerations on the bodies as they are.
ComputeAcc ==
    /\ acc = <<>>
    /\ acc' = compute_accelerations(bodies)
    /\ UNCHANGED <<bodies, dt, accumulator, pc, steps, calls, bodies0, prev>>

\* A call of step() on the bodies as they are.
ProbeStep ==
    /\ steps < MaxProbeSteps
    /\ bodies' = step(bodies, dt)
    /\ prev' = bodies
    /\ steps' = steps + 1
    /\ acc' = <<>>
    /\ UNCHANGED <<dt, accumulator, pc, calls, bodies0>>

NextAny == ComputeAcc \/ ProbeStep

SpecAny == InitAny /\ [][NextAny]_vars

Abs(a) == F32(0, a.exp, a.frac)
FLe(a, b) == ~IsNaN(a) /\ ~IsNaN(b) /\ Key(a) <= Key(b)
FiniteVec(v) == IsFinite(v.x) /\ IsFinite(v.y)

\* The distance between two finite f32 counted in representable values.
UlpDist(a, b) == IF Key(a) >= Key(b) THEN Key(a) - Key(b) ELSE Key(b) - Key(a)

Pairs == { ij \in Bodies \X Bodies : ij[1] # ij[2] }

\* What the claims call the contribution of j to i's acceleration.
Term(i, j) ==
    LET d == sub(bodies[j].pos, bodies[i].pos)
        r == FMax(magnitude(d), SOFTENING)
    IN  mul(normalize(d), FDiv(FMul(G, bodies[j].mass), FMul(r, r)))

\* The sum of the terms of the bodies j..n other than i, added to s in order.
RECURSIVE SumOthers(_, _, _)
SumOthers(i, j, s) ==
    IF j > Len(bodies) THEN s
    ELSE SumOthers(i, j + 1, IF j = i THEN s ELSE add(s, Term(i, j)))

C5_Sum ==
    acc # <<>> =>
        /\ DOMAIN acc = Bodies
        /\ \A i \in Bodies : acc[i] = SumOthers(i, 1, V0)
        /\ \A i \in Bodies : \A m \in Masses :
              compute_accelerations([bodies EXCEPT ![i].mass = m])[i] = acc[i]
        /\ Len(bodies) = 1 => acc[1] = V0

C5_Pure == (acc = <<>> /\ acc' # <<>>) => bodies' = bodies

\* C5: compute_accelerations returns one vector per body in the order of the
\* bodies, entry i the sum over the bodies j # i of normalize(pos[j]-pos[i]) *
\* (G*mass[j] / max(|pos[j]-pos[i]|, 0.1)^2); the mass of body i itself has no
\* part in entry i, a single body gets the zero vector, and the call leaves
\* the bodies as they were.
C5_Accelerations == []C5_Sum /\ [][C5_Pure]_vars

\* The accelerations of three bodies of different masses have been computed,
\* none of them zero.
C5_Witness ==
    /\ Len(bodies) = 3
    /\ acc # <<>>
    /\ \A i \in Bodies : ~IsZero(acc[i].x)
    /\ bodies[1].mass # bodies[2].mass

\* G * mass / 0.1^2, the largest pull the floor allows.
Cap(m) == FDiv(FMul(G, m), FMul(SOFTENING, SOFTENING))

\* pos[i] == pos[j] as f32 compares them (a NaN equals nothing).
SamePlace(i, j) ==
    /\ FEq(bodies[i].pos.x, bodies[j].pos.x)
    /\ FEq(bodies[i].pos.y, bodies[j].pos.y)

\* The divisors of the two divisions made for the pair: the magnitude
\* normalize divides by (when it divides), and distance * distance.
NoDivisionByZero(i, j) ==
    LET d == sub(bodies[j].pos, bodies[i].pos)
        mag == magnitude(d)
        r == softened(mag)
    IN  /\ ~IsZero(FMul(r, r))
        /\ (~FEq(mag, F0)) => ~IsZero(mag)
        /\ SamePlace(i, j) =>
              (normalize(d) = d /\ IsZero(d.x) /\ IsZero(d.y) /\ r = SOFTENING)

Bounded(i, j) ==
    LET c == contribution(bodies, i, j)
    IN  /\ FiniteVec(c)
        /\ FLe(Abs(c.x), Cap(bodies[j].mass))
        /\ FLe(Abs(c.y), Cap(bodies[j].mass))
        /\ Key(magnitude(c)) <= Key(Cap(bodies[j].mass)) + 8

\* The difference of the positions is finite and its squared magnitude, as
\* magnitude() computes it, is zero or a normal f32 (no overflow of the
\* difference, no underflow of the square into the subnormal range).
InRange(i, j) ==
    LET d == sub(bodies[j].pos, bodies[i].pos)
        sq == FAdd(FMul(d.x, d.x), FMul(d.y, d.y))
    IN  /\ FiniteVec(d)
        /\ IsZero(sq) \/ sq.exp >= 1

\* C6 (as stated): for any positions of two bodies the contribution of j to
\* i's acceleration is finite and of magnitude at most G*mass[j]/0.1^2, and
\* nothing is divided by zero.
C6_AnyPositions ==
    \A ij \in Pairs : Bounded(ij[1], ij[2]) /\ NoDivisionByZero(ij[1], ij[2])

\* C6 (amended): for positions of two bodies whose difference is finite and
\* whose squared distance does not underflow, identical positions included,
\* the contribution of j to i's acceleration is finite, each component is at
\* most G*mass[j]/0.1^2 in magnitude and the magnitude of the vector is at most
\* that up to f32 rounding (8 units in the last place); when pos[i] = pos[j]
\* normalize returns the zero vector without dividing and the distance is the
\* floor 0.1; for any positions at all nothing is divided by zero, in
\* compute_accelerations or in step().
C6_Softening ==
    \A ij \in Pairs :
        /\ NoDivisionByZero(ij[1], ij[2])
        /\ InRange(ij[1], ij[2]) => Bounded(ij[1], ij[2])

\* Two bodies at the same place after a call of step(), a third one elsewhere:
\* the pull between the two is zero, the pull of the third is not.
C6_Witness ==
    /\ steps = 1
    /\ acc # <<>>
    /\ Len(bodies) = 3
    /\ SamePlace(1, 2)
    /\ contribution(bodies, 1, 2) = V0
    /\ ~IsZero(contribution(bodies, 1, 3).x)

\* A zero, or a value between 2^-63 and 2^63 in magnitude: its square neither
\* underflows nor overflows.
MidRange(a) == IsZero(a) \/ (a.exp >= 64 /\ a.exp <= 189)

\* The difference of the positions is finite and the two contributions are in
\* the range where every operation on them has a relative error of 2^-24.
Regular(i, j) ==
    LET cij == contribution(bodies, i, j)
        cji == contribution(bodies, j, i)
    IN  /\ FiniteVec(sub(bodies[j].pos, bodies[i].pos))
        /\ MidRange(cij.x) /\ MidRange(cij.y)
        /\ MidRange(cji.x) /\ MidRange(cji.y)

Symmetric(i, j, k) ==
    LET cij == contribution(bodies, i, j)
        cji == contribution(bodies, j, i)
    IN  /\ UlpDist(FMul(magnitude(cij), bodies[i].mass),
                   FMul(magnitude(cji), bodies[j].mass)) <= k
        /\ UlpDist(FMul(cij.x, bodies[i].mass), Neg(FMul(cji.x, bodies[j].mass))) <= k
        /\ UlpDist(FMul(cij.y, bodies[i].mass), Neg(FMul(cji.y, bodies[j].mass))) <= k

\* The distance between the two bodies is below the softening floor.
Floored(i, j) == FLt(magnitude(sub(bodies[j].pos, bodies[i].pos)), SOFTENING)

\* C7 (as stated): for two bodies i # j the magnitude of the contribution of j
\* to i's acceleration times mass[i] equals the magnitude of the contribution
\* of i to j's acceleration times mass[j], the two pointing in opposite
\* directions, when their distance is not below the floor 0.1.
C7_Equal ==
    \A ij \in Pairs :
        (Regular(ij[1], ij[2]) /\ ~Floored(ij[1], ij[2])) => Symmetric(ij[1], ij[2], 0)

\* C7 (amended): for two bodies i # j whose positions have a finite difference
\* and whose contributions to each other's acceleration neither underflow nor
\* overflow, the contribution of j to i's acceleration times mass[i] and the
\* contribution of i to j's acceleration times mass[j] are opposite vectors of
\* the same magnitude up to f32 rounding: the magnitudes, and the components
\* with one of them negated, are within 16 units in the last place of each
\* other, below the softening floor as above it.
C7_ThirdLaw ==
    \A ij \in Pairs : Regular(ij[1], ij[2]) => Symmetric(ij[1], ij[2], 16)

\* Two bodies of different masses, 5 apart and not on an axis, pull each other.
C7_Witness ==
    /\ Len(bodies) = 2
    /\ acc # <<>>
    /\ bodies[1].mass # bodies[2].mass
    /\ bodies[1].pos = V0
    /\ bodies[2].pos = Vec2(FromInt(3), FromInt(4))
    /\ Regular(1, 2)
    /\ ~IsZero(contribution(bodies, 1, 2).x)
    /\ ~IsZero(contribution(bodies, 1, 2).y)

\* |a - b| <= |b| / 2^13: a is b to within 0.0123 %.
Approx(a, b) == FLe(Abs(FSub(a, b)), FMul(Abs(b), F32(0, 114, 0)))

\* Two bodies of mass 100 at (-10, 0) and (10, 0), at rest.
C9_Start ==
    << Body(Vec2(FromInt(-10), F0), V0, FromInt(100), <<255, 0, 0>>),
       Body(Vec2(FromInt(10), F0), V0, FromInt(100), <<0, 255, 0>>) >>

C9_After(expected) ==
    (bodies0 = C9_Start /\ dt = DT /\ steps = 1) =>
        /\ IsZero(bodies[1].vel.y) /\ IsZero(bodies[2].vel.y)
        /\ FLt(F0, bodies[1].vel.x) /\ FLt(bodies[2].vel.x, F0)
        /\ Approx(Abs(bodies[1].vel.x), expected)
        /\ Approx(Abs(bodies[2].vel.x), expected)

\* C9 (as stated): after one step() with dt = 0.01 from two bodies of mass 100
\* at (-10, 0) and (10, 0) at rest, each velocity points at the other body
\* along the x axis and has magnitude about 0.5 * dt * G * 100 / 20^2.
C9_HalfKick ==
    C9_After(FDiv(FMul(FMul(HALF, DT), FMul(G, FromInt(100))),
                  FMul(FromInt(20), FromInt(20))))

\* C9 (amended): after one step() with dt = 0.01 from two bodies of mass 100
\* at (-10, 0) and (10, 0) at rest, each velocity points at the other body
\* along the x axis (y component zero) and has magnitude about
\* dt * G * 100 / 20^2 = 0.0025, that is 0.5 * dt * (a_old + a_new) with both
\* accelerations about G * 100 / 20^2.
C9_FullKick ==
    C9_After(FDiv(FMul(DT, FMul(G, FromInt(100))),
                  FMul(FromInt(20), FromInt(20))))

\* The two bodies of the scenario after their one step, moving.
C9_Witness ==
    /\ bodies0 = C9_Start
    /\ steps = 1
    /\ ~IsZero(bodies[1].vel.x)
    /\ bodies[1].pos # bodies0[1].pos

(***************************************************************************)
(* The default system stepped 10,000 times  (SpecEnergy)                   *)
(***************************************************************************)
EnergySteps == 10000

\* A call of step() on the simulation built by new(). (prev, which nothing
\* stated of this specification reads, is left as it is.)
EnergyStep ==
    /\ steps < EnergySteps
    /\ bodies' = step(bodies, dt)
    /\ steps' = steps + 1
    /\ UNCHANGED <<dt, accumulator, pc, calls, acc, bodies0, prev>>

SpecEnergy == Init /\ [][EnergyStep]_vars

\* Sum of mass * |vel|^2 / 2 over the bodies i..n, added to e.
RECURSIVE Kinetic(_, _, _)
Kinetic(bs, i, e) ==
    IF i > Len(bs) THEN e
    ELSE LET v == bs[i].vel
         IN  Kinetic(bs, i + 1,
                 FAdd(e, FMul(FMul(HALF, bs[i].mass),
                              FAdd(FMul(v.x, v.x), FMul(v.y, v.y)))))

\* Sum of -G * mass[i] * mass[j] / |pos[j] - pos[i]| over the pairs
\* i < j from (i, j) on, added to e.
RECURSIVE Potential(_, _, _, _)
Potential(bs, i, j, e) ==
    IF i > Len(bs) THEN e
    ELSE IF j > Len(bs) THEN Potential(bs, i + 1, i + 2, e)
    ELSE LET r == magnitude(sub(bs[j].pos, bs[i].pos))
         IN  Potential(bs, i, j + 1,
                 FSub(e, FDiv(FMul(FMul(G, bs[i].mass), bs[j].mass), r)))

Energy(bs) == Potential(bs, 1, 2, Kinetic(bs, 1, F0))

\* C10: over 10,000 calls of step() from the system new() builds, with
\* dt = 0.01, the total mechanical energy (kinetic plus pairwise gravitational
\* potential) stays within 1 % of the magnitude of its initial value.
C10_Energy ==
    LET e0 == Energy(bodies0)
    IN  FLe(Abs(FSub(Energy(bodies), e0)), FMul(F32(0, 120, 2348810), Abs(e0)))

\* A hundred steps into the run the bodies have moved, gained speed and the
\* computed energy is no longer bit for bit the initial one.
C10_Witness ==
    /\ steps = 100
    /\ Len(bodies[1].trail) = 100
    /\ Energy(bodies) # Energy(bodies0)
    /\ \A i \in Bodies : bodies[i].pos # bodies0[i].pos /\ bodies[i].vel # bodies0[i].vel

=============================================================================
